---- MODULE Spec2Model ----
(***************************************************************************)
(* OAuth token lifecycle of dbt-mcp: the token providers and the           *)
(* background refresh worker (oauth/token_provider.py,                     *)
(* oauth/refresh_strategy.py), the context file (oauth/context_manager.py, *)
(* oauth/dbt_platform.py) and the locked login flow (config/config.py,     *)
(* config/settings.py, oauth/login.py, oauth/fastapi_app.py).              *)
(*                                                                         *)
(* Time is counted in whole seconds.  Optional values (Python None) are    *)
(* sequences: <<>> is None and <<v>> is the value v.                       *)
(***************************************************************************)
EXTENDS Integers, Sequences, FiniteSets, TLC

----------------------------------------------------------------------------
(* Bounds of the model *)

\* time passes by itself (Tick) up to here; sleeps always run to their end
MaxTime == 3600
\* number of tokens the token endpoint issues that pass verification
MaxIssued == 2
\* number of get_token() calls
MaxCalls == 2
\* number of refresh attempts that fail
MaxFailures == 2

(* Program constants *)

buffer_seconds == 300
error_retry_delay == 5
LOGIN_BUFFER == 120

----------------------------------------------------------------------------
(* Values *)

None == <<>>
Some(v) == <<v>>
Max(a, b) == IF a >= b THEN a ELSE b

\* lifetimes the token endpoint hands out (seconds)
ExpiresInChoices == {60, 3600}
\* amounts by which the clock moves between two steps of the program
TickSteps == {3600}

\* What verification of a JWT can find (oauth/token.py, jwt.decode)
JwtKinds == {"valid", "bad_signature", "expired", "wrong_alg", "unknown_kid"}

RequiredFields ==
  {"access_token", "refresh_token", "expires_in", "scope", "token_type", "expires_at"}
IntFields == {"expires_in", "expires_at"}

\* What the value of expires_in or expires_at may be in the JSON of a token
\* response: 3600, "3600", 3600.0, "soon", 3600.5, null
IntForms ==
  {"int", "numeric_str", "integral_float", "text", "fractional_float", "null"}

\* pydantic validates a field declared `int` in its default (lax) mode: an
\* int is taken as it is, a string of digits or a float without fraction is
\* converted to that integer, anything else is a validation error
LaxInt(form) == form \in {"int", "numeric_str", "integral_float"}

\* The JWT string of the n-th issued token
Jwt(n, kind) == [id |-> n, jwt |-> kind, sub |-> 7]

\* The dict a token endpoint call returns: authlib sets expires_at from
\* expires_in at the time of the call.
TokenDict(n, kind, expires_in, t, absent, not_int) ==
  [access_token |-> Jwt(n, kind), refresh_token |-> n, expires_in |-> expires_in,
   scope |-> "user_access offline_access", token_type |-> "Bearer",
   expires_at |-> t + expires_in, absent |-> absent, not_int |-> not_int,
   form |-> [f \in IntFields |-> IF f \in not_int THEN "text" ELSE "int"]]

\* The dicts the token endpoint may answer with for the n-th token at time t
TokenDicts(n, t) ==
  { TokenDict(n, k, e, t, {}, {}) : k \in JwtKinds, e \in ExpiresInChoices }
  \cup { TokenDict(n, "valid", 3600, t, {f}, {}) : f \in RequiredFields }
  \cup { TokenDict(n, "valid", 3600, t, {}, {f}) : f \in IntFields }
  \cup { TokenDict(n, "valid", 3600, t, {"expires_in", "scope", "token_type", "expires_at"}, {}) }

ValidationError == [error |-> "ValidationError"]

\* AccessTokenResponse with every field given a default
AccessTokenResponseWithDefaults(d) ==
  IF \E f \in IntFields \ d.absent : ~LaxInt(d.form[f])
  THEN ValidationError
  ELSE [access_token |-> d.access_token, refresh_token |-> d.refresh_token,
        expires_in |-> d.expires_in, scope |-> d.scope,
        token_type |-> d.token_type, expires_at |-> d.expires_at]

\* AccessTokenResponse(**token_response): every field is required, and
\* expires_in and expires_at must validate as int; the model then holds the
\* integers.
AccessTokenResponse(d) ==
  IF d.absent # {} \/ \E f \in IntFields : ~LaxInt(d.form[f])
  THEN ValidationError
  ELSE [access_token |-> d.access_token, refresh_token |-> d.refresh_token,
        expires_in |-> d.expires_in, scope |-> d.scope,
        token_type |-> d.token_type, expires_at |-> d.expires_at]

IsError(x) == "error" \in DOMAIN x

\* fetch_jwks_and_verify_token: fetches the key set, then jwt.decode with
\* RS256; returns the claims or raises.
fetch_jwks_and_verify_token(access_token, jwks_ok) ==
  IF ~jwks_ok THEN [error |-> "PyJWKClientError"]
  ELSE IF access_token.jwt # "valid" THEN [error |-> "InvalidTokenError"]
  ELSE [sub |-> access_token.sub]

DecodedAccessToken(atr, claims) ==
  [access_token_response |-> atr, decoded_claims |-> claims]

----------------------------------------------------------------------------
(* DbtPlatformContext and the context file *)

DbtPlatformContext(tok, hp, dev, prod, acc) ==
  [decoded_access_token |-> tok, host_prefix |-> hp, dev_environment |-> dev,
   prod_environment |-> prod, account_id |-> acc]

EmptyContext == DbtPlatformContext(None, None, None, None, None)

\* Python truthiness of the optional fields
TruthyObj(o) == o # None
TruthyStr(o) == o # None /\ o[1] # ""
TruthyInt(o) == o # None /\ o[1] # 0

\* DbtPlatformContext.override: `other.x or self.x`, field by field
override(self, other) ==
  [dev_environment |->
     IF TruthyObj(other.dev_environment) THEN other.dev_environment
     ELSE self.dev_environment,
   prod_environment |->
     IF TruthyObj(other.prod_environment) THEN other.prod_environment
     ELSE self.prod_environment,
   decoded_access_token |->
     IF TruthyObj(other.decoded_access_token) THEN other.decoded_access_token
     ELSE self.decoded_access_token,
   host_prefix |->
     IF TruthyStr(other.host_prefix) THEN other.host_prefix ELSE self.host_prefix,
   account_id |->
     IF TruthyInt(other.account_id) THEN other.account_id ELSE self.account_id]

\* dbt_platform_context_from_token_response: validate, verify, wrap
dbt_platform_context_from_token_response(d, jwks_ok) ==
  LET atr == AccessTokenResponse(d) IN
  IF IsError(atr) THEN atr
  ELSE LET claims == fetch_jwks_and_verify_token(atr.access_token, jwks_ok) IN
       IF IsError(claims) THEN claims
       ELSE DbtPlatformContext(Some(DecodedAccessToken(atr, claims)),
                               None, None, None, None)

\* The file at config_location.  kind is what is on disk; doc is the context
\* the YAML text holds when kind = "mapping".
FileKinds ==
  {"missing", "unreadable", "empty", "whitespace", "malformed", "not_a_mapping",
   "invalid", "mapping"}
File(kind, doc) == [kind |-> kind, doc |-> doc]
MissingFile == File("missing", EmptyContext)
EmptyFile == File("empty", EmptyContext)

(* yaml.dump and yaml.safe_load on the scalars of a context.  The text of a
   scalar is either the decimal digits of a number or other characters; the
   strings inside a token response (the JWT, the opaque refresh token, scope
   and token type) are carried as they are. *)

\* integers whose decimal text the strings of the model can spell
YamlSmallInts == 0..12

Digits(n) == [digits |-> TRUE, n |-> n, s |-> ""]
Chars(s) == [digits |-> FALSE, n |-> 0, s |-> s]

TextOf(s) ==
  IF \E n \in YamlSmallInts : ToString(n) = s
  THEN Digits(CHOOSE n \in YamlSmallInts : ToString(n) = s)
  ELSE Chars(s)

\* plain scalars that the YAML 1.1 resolver does not read as a string
YamlNullTexts == {"", "~", "null", "Null", "NULL"}
YamlBoolTexts == {"yes", "no", "true", "false", "on", "off"}

ScalarNode(style, text) == [style |-> style, text |-> text]

\* represent_str without the resolver test: every string is written plain
StrNodeAlwaysPlain(s) == ScalarNode("plain", TextOf(s))

\* represent_str: plain only when the plain text resolves to a string again,
\* quoted otherwise
StrNode(s) ==
  IF TextOf(s).digits \/ s \in YamlNullTexts \/ s \in YamlBoolTexts
  THEN ScalarNode("quoted", TextOf(s))
  ELSE ScalarNode("plain", TextOf(s))

IntNode(n) == ScalarNode("plain", Digits(n))
NullNode == ScalarNode("plain", Chars("null"))
MappingNode(m) == [style |-> "mapping", value |-> m]

YamlValue(tag, n, s, m) == [tag |-> tag, n |-> n, s |-> s, m |-> m]

\* SafeConstructor on one node
construct_node(node) ==
  IF node.style = "mapping" THEN YamlValue("map", 0, "", Some(node.value))
  ELSE IF node.style = "quoted"
  THEN YamlValue("str", 0,
                 IF node.text.digits THEN ToString(node.text.n) ELSE node.text.s,
                 None)
  ELSE IF node.text.digits THEN YamlValue("int", node.text.n, "", None)
  ELSE IF node.text.s \in YamlNullTexts THEN YamlValue("null", 0, "", None)
  ELSE IF node.text.s \in YamlBoolTexts THEN YamlValue("bool", 0, node.text.s, None)
  ELSE YamlValue("str", 0, node.text.s, None)

\* pydantic validation of `str | None`, `int | None` (lax: digits in a string
\* are an int) and of a nested model: the value, or a ValidationError
Valid(value) == [ok |-> TRUE, value |-> value]
Invalid == [ok |-> FALSE, value |-> None]

validate_str(v) ==
  IF v.tag = "null" THEN Valid(None)
  ELSE IF v.tag = "str" THEN Valid(Some(v.s))
  ELSE Invalid

validate_int(v) ==
  IF v.tag = "null" THEN Valid(None)
  ELSE IF v.tag = "int" THEN Valid(Some(v.n))
  ELSE IF v.tag = "str" /\ TextOf(v.s).digits THEN Valid(Some(TextOf(v.s).n))
  ELSE Invalid

EnvNodes(env) ==
  MappingNode([id |-> IntNode(env.id), name |-> StrNode(env.name),
               deployment_type |-> StrNode(env.deployment_type)])

validate_env(v) ==
  IF v.tag = "null" THEN Valid(None)
  ELSE IF v.tag # "map" THEN Invalid
  ELSE LET id == construct_node(v.m[1].id)
           name == construct_node(v.m[1].name)
           deployment_type == construct_node(v.m[1].deployment_type) IN
       IF id.tag = "int" /\ name.tag = "str" /\ deployment_type.tag = "str"
       THEN Valid(Some([id |-> id.n, name |-> name.s,
                        deployment_type |-> deployment_type.s]))
       ELSE Invalid

validate_token(v) ==
  IF v.tag = "null" THEN Valid(None)
  ELSE IF v.tag = "map" THEN Valid(v.m)
  ELSE Invalid

\* yaml.dump(context.model_dump()): one node per key
yaml_dump(context) ==
  [decoded_access_token |->
     IF context.decoded_access_token = None THEN NullNode
     ELSE MappingNode(context.decoded_access_token[1]),
   host_prefix |->
     IF context.host_prefix = None THEN NullNode
     ELSE StrNode(context.host_prefix[1]),
   dev_environment |->
     IF context.dev_environment = None THEN NullNode
     ELSE EnvNodes(context.dev_environment[1]),
   prod_environment |->
     IF context.prod_environment = None THEN NullNode
     ELSE EnvNodes(context.prod_environment[1]),
   account_id |->
     IF context.account_id = None THEN NullNode
     ELSE IntNode(context.account_id[1])]

\* DbtPlatformContext(**yaml.safe_load(text)) for the text of a document
load_context(text) ==
  LET tok == validate_token(construct_node(text.decoded_access_token))
      hp == validate_str(construct_node(text.host_prefix))
      dev == validate_env(construct_node(text.dev_environment))
      prod == validate_env(construct_node(text.prod_environment))
      acc == validate_int(construct_node(text.account_id)) IN
  IF tok.ok /\ hp.ok /\ dev.ok /\ prod.ok /\ acc.ok
  THEN Valid(DbtPlatformContext(tok.value, hp.value, dev.value, prod.value,
                                acc.value))
  ELSE [ok |-> FALSE, value |-> EmptyContext]

\* The file that holds the text of a document
FileOfText(text) ==
  LET c == load_context(text) IN
  IF c.ok THEN File("mapping", c.value) ELSE File("invalid", EmptyContext)

\* How a call ends: with a value, or with an exception that leaves it
Outcome(value, raised) == [value |-> value, raised |-> raised]

\* read_context from read_text() to the constructor, inside the try
read_context_try(f) ==
  IF f.kind = "unreadable" THEN Outcome(None, Some("OSError"))
  ELSE IF f.kind \in {"empty", "whitespace"} THEN Outcome(None, None)
  ELSE IF f.kind = "malformed" THEN Outcome(None, Some("YAMLError"))
  ELSE IF f.kind = "not_a_mapping" THEN Outcome(None, None)
  ELSE IF f.kind = "invalid" THEN Outcome(None, Some("ValidationError"))
  ELSE Outcome(Some(f.doc), None)

\* the handlers with only `except yaml.YAMLError`
ReadContextCatchesYAMLErrorOnly(exc) == exc = "YAMLError"

\* `except yaml.YAMLError` and `except Exception` of read_context
ReadContextCatches(exc) ==
  exc = "YAMLError" \/ exc \in {"OSError", "ValidationError", "TypeError"}

read_context_outcome(f) ==
  IF f.kind = "missing" THEN Outcome(None, None)
  ELSE LET r == read_context_try(f) IN
       IF r.raised # None /\ ReadContextCatches(r.raised[1])
       THEN Outcome(None, None)
       ELSE r

\* DbtPlatformContextManager.read_context: None unless the file holds a
\* mapping that validates
read_context(f) == read_context_outcome(f).value

\* DbtPlatformContextManager.write_context_to_file: touch, then write_text.
\* write_ok = FALSE is an OSError of write_text, which may already have
\* truncated the file.
write_context_to_file(f, context, write_ok, truncated) ==
  IF write_ok THEN FileOfText(yaml_dump(context))
  ELSE IF truncated THEN EmptyFile
  ELSE f

\* update_context that writes the new context in place of the stored one
update_context_replaces(f, new) == new

\* DbtPlatformContextManager.update_context: read, merge, write
update_context_next(f, new) ==
  LET existing == read_context(f) IN
  override(IF existing = None THEN EmptyContext ELSE existing[1], new)

update_context(f, new, write_ok, truncated) ==
  write_context_to_file(f, update_context_next(f, new), write_ok, truncated)

----------------------------------------------------------------------------
(* State *)

VARIABLES
  now,                    \* time.time()
  kind,                   \* which TokenProvider load_config built
  access_token_response,  \* OAuthTokenProvider.access_token_response
  refresh_started,        \* OAuthTokenProvider.refresh_started
  tasks,                  \* asyncio tasks created by start_background_refresh
  worker_pc,              \* where _background_refresh_worker stands
  wake_at,                \* when the worker's asyncio.sleep ends
  running,                \* the worker runs and has not suspended since
  current_time,           \* wait_until_refresh_needed: current_time
  time_until_refresh,     \* wait_until_refresh_needed: time_until_refresh
  refresh_outcome,        \* how the last _refresh_token call ended
  issued,                 \* tokens issued by the token endpoint and accepted
  failures,               \* refresh attempts that failed
  last_ok,                \* access token of the last refresh that succeeded
  construct_token,        \* access token the provider was constructed with
  calls,                  \* get_token() calls made
  returned,               \* what the last get_token() returned
  get_token_io,           \* network and file accesses made by get_token()
  file,                   \* the context file (mcp.yml)
  token,                  \* StaticTokenProvider.token
  static_result,          \* outcome of the last StaticTokenProvider.get_token
  variant,                \* which get_dbt_platform_context the processes run
  lock,                   \* holder of the FileLock on mcp.lock, 0 when free
  pc,                     \* where each process stands in get_dbt_platform_context
  app,                    \* app.state of each process's callback server
  browser,                \* webbrowser.open calls of each process
  result,                 \* what get_dbt_platform_context returned to each process
  mem,                    \* access_token_response of each process's provider
  last_verified,          \* the access token the last exchange or refresh verified
  saw_fresh,              \* a sibling's login token was fresh when the process
                          \* examined the context file
  file0,                  \* the context file as it was when the program started
  handled,                \* the callbacks the server of a login has handled
  store_log,              \* the calls made on the context store, with results
  upd,                    \* where each concurrent update of the file stands
  seen,                   \* what a concurrent read_context has returned
  port_call,              \* a call of _find_available_port: arguments and result
  page_call,              \* a paginated listing: arguments, requests, items so far
  token_call,             \* the last token response handed to the program
  cred                    \* CredentialsProvider and its get_credentials calls

workerVars == <<worker_pc, wake_at, running, current_time, time_until_refresh,
                refresh_outcome, issued, failures, last_ok>>
oauthVars == <<access_token_response, refresh_started, tasks, construct_token>>
staticVars == <<token, static_result>>
loginVars == <<variant, lock, pc, app, browser, result, mem, last_verified,
               saw_fresh>>
providerVars == <<kind, access_token_response, refresh_started, tasks, worker_pc,
                  wake_at, running, current_time, time_until_refresh,
                  refresh_outcome, failures, last_ok, construct_token, calls,
                  returned, get_token_io, token, static_result>>
callVars == <<calls, returned, get_token_io>>
attemptVars == <<file0, handled>>
storeVars == <<store_log, upd, seen>>
helperVars == <<port_call, page_call, token_call, cred>>

vars == <<now, kind, access_token_response, refresh_started, tasks, worker_pc,
          wake_at, running, current_time, time_until_refresh, refresh_outcome,
          issued, failures, last_ok, construct_token, calls, returned,
          get_token_io, file, token, static_result, variant, lock, pc, app,
          browser, result, mem, last_verified, saw_fresh, file0, handled,
          store_log, upd, seen, port_call, page_call, token_call, cred>>

----------------------------------------------------------------------------
(* Processes that log in *)

\* number of processes (MCP server instances) started on one configuration
\* directory
NumProcs == 2
Procs == 1..NumProcs

AppState(tok, ctx, verifiers) ==
  [decoded_access_token |-> tok, dbt_platform_context |-> ctx,
   state_to_verifier |-> verifiers]

NoApp == AppState(None, None, {})

\* The login variables while no process has started
LoginIdle ==
  /\ lock = 0
  /\ pc = [p \in Procs |-> "idle"]
  /\ app = [p \in Procs |-> NoApp]
  /\ browser = [p \in Procs |-> 0]
  /\ result = [p \in Procs |-> None]
  /\ mem = [p \in Procs |-> None]
  /\ last_verified = None
  /\ saw_fresh = [p \in Procs |-> FALSE]

\* The two writers of the context file that may run at the same time: the
\* refresh of one process (update_context) and the callback server of another
\* (_update_dbt_platform_context)
Updaters == {"refresh", "server"}

\* One update: where it stands, the context it was called with, the merge it
\* will write, and the file its write_text replaces
UpdState(at, new, next, replaced) ==
  [pc |-> at, new |-> new, next |-> next, replaced |-> replaced]

\* No call on the context store has been made and no update is under way
StoreIdle ==
  /\ store_log = <<>>
  /\ upd = [u \in Updaters |-> UpdState("idle", None, None, None)]
  /\ seen = {}

\* No helper has been called and nobody has asked for credentials
HelperIdle ==
  /\ port_call = None
  /\ page_call = None
  /\ token_call = None
  /\ cred = None

\* No callback has been handled; file0 remembers the file the program found
AttemptIdle ==
  /\ file0 = file
  /\ handled = <<>>

----------------------------------------------------------------------------
(* Token providers *)

\* The token a provider is constructed with: it comes from a login or from
\* the context file, issued at time 0 with one of these lifetimes.
FirstExpiresIn == {60, 3600}
FirstToken(e) == AccessTokenResponse(TokenDict(0, "valid", e, 0, {}, {}))

StoredContext(atr) ==
  DbtPlatformContext(Some(DecodedAccessToken(atr, [sub |-> 7])), Some("acme"),
                     Some([id |-> 1, name |-> "dev", deployment_type |-> "development"]),
                     Some([id |-> 2, name |-> "prod", deployment_type |-> "production"]),
                     Some(1))

\* A stored context whose project selection is incomplete: an empty host
\* prefix, no development environment, account 0
PartialContext(atr) ==
  DbtPlatformContext(Some(DecodedAccessToken(atr, [sub |-> 7])), Some(""), None,
                     Some([id |-> 2, name |-> "prod", deployment_type |-> "production"]),
                     Some(0))

StaticTokens == {None, Some(""), Some("tkn-1"), Some("tkn-2")}

InitProvider ==
  /\ now = 0
  /\ kind \in {"oauth", "static"}
  /\ \E e \in FirstExpiresIn :
       /\ access_token_response = FirstToken(e)
       /\ construct_token = FirstToken(e).access_token
       /\ IF kind = "oauth"
          THEN file \in {MissingFile, File("mapping", StoredContext(FirstToken(e))),
                          File("mapping", PartialContext(FirstToken(e)))}
          ELSE file = MissingFile /\ e = 3600
  /\ refresh_started = FALSE
  /\ tasks = 0
  /\ worker_pc = "none"
  /\ wake_at = 0
  /\ running = FALSE
  /\ current_time = 0
  /\ time_until_refresh = 0
  /\ refresh_outcome = "none"
  /\ issued = 0
  /\ failures = 0
  /\ last_ok = None
  /\ calls = 0
  /\ returned = None
  /\ get_token_io = {}
  /\ IF kind = "static" THEN token \in StaticTokens ELSE token = None
  /\ static_result = "none"
  /\ variant = "config"
  /\ LoginIdle
  /\ AttemptIdle
  /\ StoreIdle
  /\ HelperIdle

\* get_token without the refresh_started guard
GetTokenAlwaysStarts ==
  /\ kind = "oauth"
  /\ calls < MaxCalls
  /\ ~running
  /\ tasks' = tasks + 1
  /\ worker_pc' = "loop_top"
  /\ refresh_started' = TRUE
  /\ returned' = Some(access_token_response.access_token)
  /\ get_token_io' = get_token_io
  /\ calls' = calls + 1
  /\ UNCHANGED <<now, kind, access_token_response, construct_token, wake_at,
                 running, current_time, time_until_refresh, refresh_outcome,
                 issued, failures, last_ok, file, staticVars, loginVars,
                 attemptVars, storeVars, helperVars>>

\* get_token answering from the context file (_get_access_token_response)
GetTokenFromContextFile ==
  /\ kind = "oauth"
  /\ calls < MaxCalls
  /\ ~running
  /\ IF ~refresh_started
     THEN /\ tasks' = tasks + 1
          /\ worker_pc' = "loop_top"
          /\ refresh_started' = TRUE
     ELSE UNCHANGED <<tasks, worker_pc, refresh_started>>
  /\ returned' =
       IF read_context(file) # None /\ read_context(file)[1].decoded_access_token # None
       THEN Some(read_context(file)[1].decoded_access_token[1].access_token_response.access_token)
       ELSE None
  /\ get_token_io' = {"file_read"}
  /\ calls' = calls + 1
  /\ UNCHANGED <<now, kind, access_token_response, construct_token, wake_at,
                 running, current_time, time_until_refresh, refresh_outcome,
                 issued, failures, last_ok, file, staticVars, loginVars,
                 attemptVars, storeVars, helperVars>>

\* OAuthTokenProvider.get_token.  It is a plain function called from a task of
\* the event loop, so it runs only while the worker is suspended.
GetToken ==
  /\ kind = "oauth"
  /\ calls < MaxCalls
  /\ ~running
  /\ IF ~refresh_started
     THEN /\ tasks' = tasks + 1            \* start_background_refresh
          /\ worker_pc' = "loop_top"
          /\ refresh_started' = TRUE
     ELSE UNCHANGED <<tasks, worker_pc, refresh_started>>
  /\ returned' = Some(access_token_response.access_token)
  /\ get_token_io' = get_token_io
  /\ calls' = calls + 1
  /\ UNCHANGED <<now, kind, access_token_response, construct_token, wake_at,
                 running, current_time, time_until_refresh, refresh_outcome,
                 issued, failures, last_ok, file, staticVars, loginVars,
                 attemptVars, storeVars, helperVars>>

\* get_token with `if self.token is None` for `if not self.token`
StaticGetTokenResultIsNone(t) ==
  IF t = None THEN "ValueError" ELSE t[1]

\* StaticTokenProvider.get_token: `if not self.token: raise ValueError`
StaticGetTokenResult(t) ==
  IF ~TruthyStr(t) THEN "ValueError" ELSE t[1]

StaticGetToken ==
  /\ kind = "static"
  /\ calls < MaxCalls
  /\ static_result' = StaticGetTokenResult(token)
  /\ calls' = calls + 1
  /\ UNCHANGED <<now, kind, oauthVars, workerVars, returned, get_token_io,
                 file, token, loginVars,
                 attemptVars, storeVars, helperVars>>

----------------------------------------------------------------------------
(* DefaultRefreshStrategy and the background refresh worker *)

\* the wait computed without the buffer
TimeUntilRefreshNoBuffer(expires_at, t) ==
  Max(expires_at - t, 0)

\* wait_until_refresh_needed: max(expires_at - buffer_seconds - current_time, 0)
TimeUntilRefresh(expires_at, t) ==
  Max((expires_at - buffer_seconds) - t, 0)

\* The head of an iteration: wait_until_refresh_needed(expires_at).  It
\* sleeps only `if time_until_refresh > 0`; otherwise the worker goes on into
\* _refresh_token without suspending.
WaitUntilRefreshNeeded ==
  /\ worker_pc = "loop_top"
  /\ LET t == TimeUntilRefresh(access_token_response.expires_at, now) IN
       /\ current_time' = now
       /\ time_until_refresh' = t
       /\ IF t > 0
          THEN /\ worker_pc' = "sleeping"
               /\ wake_at' = now + t
               /\ running' = FALSE
          ELSE /\ worker_pc' = "refresh"
               /\ wake_at' = 0
               /\ running' = TRUE
  /\ UNCHANGED <<now, kind, oauthVars, refresh_outcome, issued, failures,
                 last_ok, callVars, file, staticVars, loginVars,
                 attemptVars, storeVars, helperVars>>

\* asyncio.sleep(time_until_refresh) returns once that much time has passed
SleepDone ==
  /\ worker_pc = "sleeping"
  /\ now' = Max(now, wake_at)
  /\ wake_at' = 0
  /\ worker_pc' = "refresh"
  /\ running' = TRUE
  /\ UNCHANGED <<kind, oauthVars, current_time, time_until_refresh,
                 refresh_outcome, issued, failures, last_ok, callVars, file,
                 staticVars, loginVars,
                 attemptVars, storeVars, helperVars>>

\* _refresh_token storing the new token before it updates the context file
RefreshResultAssignFirst(atr, f, endpoint_ok, d, jwks_ok, write_ok, truncated) ==
  IF ~endpoint_ok
  THEN [outcome |-> "endpoint_error", atr |-> atr, file |-> f]
  ELSE LET ctx == dbt_platform_context_from_token_response(d, jwks_ok) IN
    IF IsError(ctx) /\ ctx.error = "ValidationError"
    THEN [outcome |-> "validation_error", atr |-> atr, file |-> f]
    ELSE IF IsError(ctx)
    THEN [outcome |-> "verification_error", atr |-> atr, file |-> f]
    ELSE IF ~write_ok
    THEN [outcome |-> "update_error",
          atr |-> ctx.decoded_access_token[1].access_token_response,
          file |-> update_context(f, ctx, FALSE, truncated)]
    ELSE [outcome |-> "ok",
          atr |-> ctx.decoded_access_token[1].access_token_response,
          file |-> update_context(f, ctx, TRUE, FALSE)]

\* What one _refresh_token call does, for each thing that can go wrong.
\* endpoint_ok: oauth_client.refresh_token returned the dict d (else raised);
\* jwks_ok: the key set could be fetched; write_ok/truncated: see
\* write_context_to_file.
RefreshResult(atr, f, endpoint_ok, d, jwks_ok, write_ok, truncated) ==
  IF ~endpoint_ok
  THEN [outcome |-> "endpoint_error", atr |-> atr, file |-> f]
  ELSE LET ctx == dbt_platform_context_from_token_response(d, jwks_ok) IN
    IF IsError(ctx) /\ ctx.error = "ValidationError"
    THEN [outcome |-> "validation_error", atr |-> atr, file |-> f]
    ELSE IF IsError(ctx)
    THEN [outcome |-> "verification_error", atr |-> atr, file |-> f]
    ELSE IF ~write_ok
    THEN [outcome |-> "update_error", atr |-> atr,
          file |-> update_context(f, ctx, FALSE, truncated)]
    ELSE [outcome |-> "ok",
          atr |-> ctx.decoded_access_token[1].access_token_response,
          file |-> update_context(f, ctx, TRUE, FALSE)]

\* The exception each failure raises, and `except Exception` of the worker:
\* all of them derive from Exception.
ExceptionOf(outcome) ==
  CASE outcome = "endpoint_error" -> "OAuthError"
    [] outcome = "validation_error" -> "ValidationError"
    [] outcome = "verification_error" -> "PyJWTError"
    [] outcome = "update_error" -> "OSError"
    [] OTHER -> "none"

\* `except ValueError` for `except Exception`
CaughtOnlyValueError(exc) ==
  exc \in {"ValidationError"}

CaughtByWorker(exc) ==
  exc \in {"OAuthError", "ValidationError", "PyJWTError", "OSError"}

\* What can happen to one refresh attempt for the n-th token at time t
RefreshAttempt(endpoint_ok, d, jwks_ok, write_ok, truncated) ==
  [endpoint_ok |-> endpoint_ok, d |-> d, jwks_ok |-> jwks_ok,
   write_ok |-> write_ok, truncated |-> truncated]

RefreshAttempts(n, t) ==
  { RefreshAttempt(FALSE, TokenDict(n, "valid", 3600, t, {}, {}), TRUE, TRUE, FALSE) }
  \cup { RefreshAttempt(TRUE, d, TRUE, TRUE, FALSE) : d \in TokenDicts(n, t) }
  \cup { RefreshAttempt(TRUE, TokenDict(n, "valid", e, t, {}, {}), FALSE, TRUE, FALSE) :
           e \in ExpiresInChoices }
  \cup { RefreshAttempt(TRUE, TokenDict(n, "valid", e, t, {}, {}), TRUE, FALSE, tr) :
           e \in ExpiresInChoices, tr \in BOOLEAN }

\* _refresh_token, and the `except Exception` around it: a success goes
\* straight back to the head of the loop, a failure into wait_after_error.
RefreshToken ==
  /\ worker_pc = "refresh"
  /\ \E a \in RefreshAttempts(issued + 1, now) :
       LET r == RefreshResult(access_token_response, file, a.endpoint_ok, a.d,
                              a.jwks_ok, a.write_ok, a.truncated) IN
         /\ r.outcome = "ok" => issued < MaxIssued
         /\ r.outcome # "ok" => failures < MaxFailures
         /\ access_token_response' = r.atr
         /\ file' = r.file
         /\ refresh_outcome' = r.outcome
         /\ issued' = IF r.outcome = "ok" THEN issued + 1 ELSE issued
         /\ failures' = IF r.outcome = "ok" THEN failures ELSE failures + 1
         /\ last_ok' = IF r.outcome = "ok" THEN Some(a.d.access_token) ELSE last_ok
         /\ IF r.outcome = "ok"
            THEN /\ worker_pc' = "loop_top"
                 /\ running' = TRUE
                 /\ wake_at' = 0
            ELSE IF CaughtByWorker(ExceptionOf(r.outcome))
            THEN /\ worker_pc' = "error_sleep"      \* wait_after_error
                 /\ running' = FALSE
                 /\ wake_at' = now + error_retry_delay
            ELSE /\ worker_pc' = "dead"             \* the task ends
                 /\ running' = FALSE
                 /\ wake_at' = 0
  /\ current_time' = 0
  /\ time_until_refresh' = 0
  /\ UNCHANGED <<now, kind, refresh_started, tasks, construct_token,
                 callVars, staticVars, loginVars,
                 attemptVars, storeVars, helperVars>>

\* asyncio.sleep(error_retry_delay) returns; the loop starts over
ErrorSleepDone ==
  /\ worker_pc = "error_sleep"
  /\ now' = Max(now, wake_at)
  /\ wake_at' = 0
  /\ worker_pc' = "loop_top"
  /\ running' = TRUE
  /\ UNCHANGED <<kind, oauthVars, current_time, time_until_refresh,
                 refresh_outcome, issued, failures, last_ok, callVars, file,
                 staticVars, loginVars,
                 attemptVars, storeVars, helperVars>>

\* Time passes
Tick ==
  /\ \E d \in TickSteps :
       /\ now + d <= MaxTime
       /\ now' = now + d
  /\ UNCHANGED <<kind, oauthVars, workerVars, callVars, file, staticVars, loginVars,
                 attemptVars, storeVars, helperVars>>

NextProvider ==
  \/ GetToken
  \/ StaticGetToken
  \/ WaitUntilRefreshNeeded
  \/ SleepDone
  \/ RefreshToken
  \/ ErrorSleepDone
  \/ Tick

Spec == InitProvider /\ [][NextProvider]_vars

----------------------------------------------------------------------------
(* get_dbt_platform_context, login and the callback server *)

OAUTH_REDIRECT_STARTING_PORT == 6785
max_attempts == 20

\* _find_available_port: the first candidate that binds, None for the
\* RuntimeError after max_attempts candidates
RECURSIVE ProbePorts(_, _, _)
ProbePorts(candidate_port, end, busy) ==
  IF candidate_port >= end THEN None
  ELSE IF candidate_port \notin busy THEN Some(candidate_port)
  ELSE ProbePorts(candidate_port + 1, end, busy)

\* _find_available_port that gives up at the first port that does not bind
find_available_port_first_only(start_port, attempts, busy) ==
  IF attempts > 0 /\ start_port \notin busy THEN Some(start_port) ELSE None

find_available_port(start_port, attempts, busy) ==
  ProbePorts(start_port, start_port + attempts, busy)

\* ports other programs hold on 127.0.0.1
BusyChoices ==
  {{}, {OAUTH_REDIRECT_STARTING_PORT},
   OAUTH_REDIRECT_STARTING_PORT..(OAUTH_REDIRECT_STARTING_PORT + max_attempts - 1)}

ExpiresAtOf(ctx) == ctx.decoded_access_token[1].access_token_response.expires_at

\* config/config.py: a stored token with more than two minutes left
UsableConfig(c, t) ==
  /\ c # None
  /\ TruthyObj(c[1].decoded_access_token)
  /\ ExpiresAtOf(c[1]) > t + LOGIN_BUFFER

\* config/settings.py: the same, and every other field of the context set
UsableSettings(c, t) ==
  /\ c # None
  /\ TruthyInt(c[1].account_id)
  /\ TruthyStr(c[1].host_prefix)
  /\ TruthyObj(c[1].dev_environment)
  /\ TruthyObj(c[1].prod_environment)
  /\ TruthyObj(c[1].decoded_access_token)
  /\ ExpiresAtOf(c[1]) > t + LOGIN_BUFFER

Usable(v, c, t) == IF v = "config" THEN UsableConfig(c, t) ELSE UsableSettings(c, t)

\* What get_dbt_platform_context hands back: the stored context, or login's
\* LoginResult
LoginResult(tok, ctx) == [decoded_access_token |-> tok, dbt_platform_context |-> ctx]

InCS(p) == pc[p] \in {"locked", "serving"}

\* The login token of q still has more than the buffer left at time t
FreshLogin(q, t) ==
  /\ pc[q] = "done"
  /\ browser[q] > 0
  /\ result[q][1].decoded_access_token[1].access_token_response.expires_at
       > t + LOGIN_BUFFER

\* The context files the processes may find
DevEnv == [id |-> 1, name |-> "dev", deployment_type |-> "development"]
ProdEnv == [id |-> 2, name |-> "prod", deployment_type |-> "production"]

LoginFiles ==
  {MissingFile, File("mapping", EmptyContext),
   File("mapping", StoredContext(FirstToken(60))),
   File("mapping", StoredContext(FirstToken(3600)))}

ProviderIdle ==
  /\ kind = "oauth"
  /\ access_token_response = FirstToken(3600)
  /\ construct_token = FirstToken(3600).access_token
  /\ refresh_started = FALSE
  /\ tasks = 0
  /\ worker_pc = "none"
  /\ wake_at = 0
  /\ running = FALSE
  /\ current_time = 0
  /\ time_until_refresh = 0
  /\ refresh_outcome = "none"
  /\ failures = 0
  /\ last_ok = None
  /\ calls = 0
  /\ returned = None
  /\ get_token_io = {}
  /\ token = None
  /\ static_result = "none"

InitLogin ==
  /\ now = 0
  /\ issued = 0
  /\ file \in LoginFiles
  /\ variant \in {"config", "settings"}
  /\ LoginIdle
  /\ ProviderIdle
  /\ AttemptIdle
  /\ StoreIdle
  /\ HelperIdle

\* A process calls get_dbt_platform_context and starts to wait for the lock
Call(p) ==
  /\ pc[p] = "idle"
  /\ pc' = [pc EXCEPT ![p] = "waiting"]
  /\ UNCHANGED <<now, issued, file, providerVars, attemptVars, storeVars, helperVars,
                 variant, lock, app, browser,
                 result, mem, last_verified, saw_fresh>>

\* Acquire without the test that the lock is free
AcquireHeldLock(p) ==
  /\ pc[p] = "waiting"
  /\ lock' = p
  /\ pc' = [pc EXCEPT ![p] = "locked"]
  /\ UNCHANGED <<now, issued, file, providerVars, attemptVars, storeVars, helperVars, variant, app, browser,
                 result, mem, last_verified, saw_fresh>>

\* FileLock(...).__enter__: taken only while no process holds it
Acquire(p) ==
  /\ pc[p] = "waiting"
  /\ lock = 0
  /\ lock' = p
  /\ pc' = [pc EXCEPT ![p] = "locked"]
  /\ UNCHANGED <<now, issued, file, providerVars, attemptVars, storeVars, helperVars, variant, app, browser,
                 result, mem, last_verified, saw_fresh>>

\* The body of the `with`: read the context and return it if it is usable;
\* else probe the ports and run login up to server.run().  Leaving the `with`
\* by return or by exception releases the lock.
ExamineContext(p) ==
  /\ pc[p] = "locked"
  /\ saw_fresh' = [saw_fresh EXCEPT ![p] = \E q \in Procs \ {p} : FreshLogin(q, now)]
  /\ LET c == read_context(file) IN
     IF Usable(variant, c, now)
     THEN /\ result' = [result EXCEPT ![p] =
                          Some(LoginResult(c[1].decoded_access_token, c))]
          /\ mem' = [mem EXCEPT ![p] =
                       Some(c[1].decoded_access_token[1].access_token_response)]
          /\ pc' = [pc EXCEPT ![p] = "done"]
          /\ lock' = 0
          /\ UNCHANGED <<app, browser>>
     ELSE \E busy \in BusyChoices, assets_ok \in BOOLEAN :
          IF find_available_port(OAUTH_REDIRECT_STARTING_PORT, max_attempts, busy) = None
             \/ ~assets_ok
          THEN /\ pc' = [pc EXCEPT ![p] = "failed"]     \* RuntimeError, FileNotFoundError
               /\ lock' = 0
               /\ UNCHANGED <<app, browser, result, mem>>
          ELSE /\ app' = [app EXCEPT ![p] = AppState(None, None, {p})]
               /\ browser' = [browser EXCEPT ![p] = browser[p] + 1]
               /\ pc' = [pc EXCEPT ![p] = "serving"]
               /\ UNCHANGED <<lock, result, mem>>
  /\ UNCHANGED <<now, issued, file, providerVars, attemptVars, storeVars, helperVars, variant, last_verified>>

\* The requests GET / may receive: with an error parameter, without a code,
\* with a code and no state, an unknown state, or the state login issued, and
\* with an error parameter next to a code and the issued state.
CallbackRequest(error, code, state) == [error |-> error, code |-> code, state |-> state]

CallbackRequests(p) ==
  {CallbackRequest(TRUE, FALSE, None), CallbackRequest(FALSE, FALSE, None),
   CallbackRequest(FALSE, TRUE, None), CallbackRequest(FALSE, TRUE, Some(0)),
   CallbackRequest(FALSE, TRUE, Some(p)), CallbackRequest(TRUE, TRUE, Some(p))}

\* What the token exchange, the verification and the write can do in a
\* login or in a refresh of one of the processes
LoginAttempts(n, t) ==
  { RefreshAttempt(FALSE, TokenDict(n, "valid", 3600, t, {}, {}), TRUE, TRUE, FALSE),
    RefreshAttempt(TRUE, TokenDict(n, "valid", 3600, t, {"expires_at"}, {}), TRUE, TRUE, FALSE),
    RefreshAttempt(TRUE, TokenDict(n, "bad_signature", 3600, t, {}, {}), TRUE, TRUE, FALSE),
    RefreshAttempt(TRUE, TokenDict(n, "valid", 3600, t, {}, {}), FALSE, TRUE, FALSE),
    RefreshAttempt(TRUE, TokenDict(n, "valid", 3600, t, {}, {}), TRUE, FALSE, FALSE),
    RefreshAttempt(TRUE, TokenDict(n, "valid", 3600, t, {}, {}), TRUE, TRUE, FALSE) }

\* fastapi_app._read_dbt_platform_context: DbtPlatformContext(**yaml.safe_load(
\* read_text())) raises unless the file holds a mapping
app_read_dbt_platform_context(f) ==
  IF f.kind = "mapping" THEN f.doc ELSE [error |-> "Exception"]

\* _update_dbt_platform_context with the result remembered in app.state only
\* after the file has been written
app_update_writes_first(a, f, new, write_ok, truncated) ==
  LET existing == app_read_dbt_platform_context(f) IN
  IF IsError(existing) THEN [app |-> a, file |-> f, ok |-> FALSE]
  ELSE LET next == override(existing, new) IN
       [app |-> IF write_ok THEN [a EXCEPT !.dbt_platform_context = Some(next)] ELSE a,
        file |-> write_context_to_file(f, next, write_ok, truncated),
        ok |-> write_ok]

\* fastapi_app._update_dbt_platform_context: read, override, remember the
\* result in app.state, write the file
app_update_dbt_platform_context(a, f, new, write_ok, truncated) ==
  LET existing == app_read_dbt_platform_context(f) IN
  IF IsError(existing) THEN [app |-> a, file |-> f, ok |-> FALSE]
  ELSE LET next == override(existing, new) IN
       [app |-> [a EXCEPT !.dbt_platform_context = Some(next)],
        file |-> write_context_to_file(f, next, write_ok, truncated),
        ok |-> write_ok]

\* DbtPlatformContext(user_id=...): user_id is a property of the model and
\* not a field, so the keyword is dropped and every field keeps its default
ContextWithUserId(user_id) == EmptyContext

\* CallbackExchange with the token remembered before it is verified
CallbackExchangeStoresFirst(a, f, x) ==
  IF ~x.endpoint_ok THEN [app |-> a, file |-> f, ok |-> FALSE, verified |-> None]
  ELSE LET atr == AccessTokenResponse(x.d) IN
    IF IsError(atr) THEN [app |-> a, file |-> f, ok |-> FALSE, verified |-> None]
    ELSE LET claims == fetch_jwks_and_verify_token(atr.access_token, x.jwks_ok)
             a1 == [a EXCEPT !.decoded_access_token =
                                Some(DecodedAccessToken(atr, [sub |-> atr.access_token.sub]))]
         IN
      IF IsError(claims) THEN [app |-> a1, file |-> f, ok |-> FALSE, verified |-> None]
      ELSE LET u == app_update_dbt_platform_context(
                      a1, f, ContextWithUserId(claims.sub), x.write_ok, x.truncated)
           IN [app |-> u.app, file |-> u.file, ok |-> u.ok,
               verified |-> Some(atr.access_token)]

\* oauth_callback for a request that carries a code and a known state, after
\* the verifier has been popped: exchange, validate, verify, remember the
\* token, update the context.
CallbackExchange(a, f, x) ==
  IF ~x.endpoint_ok THEN [app |-> a, file |-> f, ok |-> FALSE, verified |-> None]
  ELSE LET atr == AccessTokenResponse(x.d) IN
    IF IsError(atr) THEN [app |-> a, file |-> f, ok |-> FALSE, verified |-> None]
    ELSE LET claims == fetch_jwks_and_verify_token(atr.access_token, x.jwks_ok) IN
      IF IsError(claims) THEN [app |-> a, file |-> f, ok |-> FALSE, verified |-> None]
      ELSE LET a1 == [a EXCEPT !.decoded_access_token =
                                  Some(DecodedAccessToken(atr, claims))]
               u == app_update_dbt_platform_context(
                      a1, f, ContextWithUserId(claims.sub), x.write_ok, x.truncated)
           IN [app |-> u.app, file |-> u.file, ok |-> u.ok,
               verified |-> Some(atr.access_token)]

\* state_to_verifier.get(state): the verifier is looked up and left in place
get_verifier(a, state) == a

\* state_to_verifier.pop(state, None) for a state the dictionary holds
pop_verifier(a, state) == [a EXCEPT !.state_to_verifier = @ \ {state}]

\* oauth_callback without the test for the error parameter
CallbackStepIgnoresError(p, req) ==
  /\ pc[p] = "serving"
  /\ IF ~req.code \/ req.state = None
     THEN UNCHANGED <<app, file, issued, last_verified>>
     ELSE IF req.state[1] \notin app[p].state_to_verifier
     THEN UNCHANGED <<app, file, issued, last_verified>>
     ELSE \E x \in LoginAttempts(issued + 1, now) :
          LET popped == pop_verifier(app[p], req.state[1])
              r == CallbackExchange(popped, file, x) IN
            /\ r.verified # None => issued < MaxIssued
            /\ app' = [app EXCEPT ![p] = r.app]
            /\ file' = r.file
            /\ last_verified' = r.verified
            /\ issued' = IF r.verified # None THEN issued + 1 ELSE issued
  /\ UNCHANGED <<now, providerVars, file0, storeVars, helperVars, variant, lock, pc, browser,
                 result, mem, saw_fresh>>

\* GET / of the callback server: what oauth_callback does to the program
CallbackStep(p, req) ==
  /\ pc[p] = "serving"
  /\ IF req.error \/ ~req.code \/ req.state = None
     THEN UNCHANGED <<app, file, issued, last_verified>>
     ELSE IF req.state[1] \notin app[p].state_to_verifier
     THEN UNCHANGED <<app, file, issued, last_verified>>
     ELSE \E x \in LoginAttempts(issued + 1, now) :
          LET popped == pop_verifier(app[p], req.state[1])
              r == CallbackExchange(popped, file, x) IN
            /\ r.verified # None => issued < MaxIssued
            /\ app' = [app EXCEPT ![p] = r.app]
            /\ file' = r.file
            /\ last_verified' = r.verified
            /\ issued' = IF r.verified # None THEN issued + 1 ELSE issued
  /\ UNCHANGED <<now, providerVars, file0, storeVars, helperVars, variant, lock, pc, browser,
                 result, mem, saw_fresh>>

\* GET / of the callback server
Callback(p, req) ==
  /\ CallbackStep(p, req)
  /\ UNCHANGED handled

\* number of callbacks of the login that is followed request by request
MaxHandled == 2

\* What one handled request did: whether a verifier was popped for a token
\* exchange, the token it verified and stored, and the file before and after
HandledCallback(req, exchanged, verified, before, after) ==
  [req |-> req, exchanged |-> exchanged, verified |-> verified,
   before |-> before, after |-> after]

\* GET / of the callback server, with the request and its effect remembered
TracedCallback(p, req) ==
  /\ Len(handled) < MaxHandled
  /\ CallbackStep(p, req)
  /\ handled' = Append(handled,
       HandledCallback(req,
                       app'[p].state_to_verifier # app[p].state_to_verifier,
                       IF app'[p].decoded_access_token # app[p].decoded_access_token
                       THEN app'[p].decoded_access_token ELSE None,
                       file, file'))

\* What write_text can do: write the text, fail before the file is opened, or
\* fail after open() has truncated it
WriteChoices ==
  {[write_ok |-> TRUE, truncated |-> FALSE], [write_ok |-> FALSE, truncated |-> FALSE],
   [write_ok |-> FALSE, truncated |-> TRUE]}

\* What POST /selected_project finds for the chosen project
SelectionChoices ==
  {DbtPlatformContext(None, Some("acme"), Some(DevEnv), Some(ProdEnv), None)}

\* POST /selected_project: needs the token of a finished callback; lists the
\* accounts and environments and updates the context with what it found;
\* writes are the outcomes its write_text may have
SelectedProjectStep(p, writes) ==
  /\ pc[p] = "serving"
  /\ app[p].decoded_access_token # None
  /\ \E new \in SelectionChoices, w \in writes :
       LET u == app_update_dbt_platform_context(app[p], file, new, w.write_ok,
                                                w.truncated) IN
         /\ app' = [app EXCEPT ![p] = u.app]
         /\ file' = u.file
  /\ UNCHANGED <<now, issued, providerVars, attemptVars, storeVars, helperVars,
                 variant, lock, pc, browser, result,
                 mem, last_verified, saw_fresh>>

\* POST /selected_project whose write succeeds or fails with the file untouched
SelectedProject(p) ==
  SelectedProjectStep(p, {w \in WriteChoices : ~w.truncated})

\* POST /selected_project in the login that is followed request by request
TracedSelectedProject(p) ==
  SelectedProjectStep(p, WriteChoices)

\* Shutdown with the lock kept when login raises
ShutdownKeepsLockOnRaise(p) ==
  /\ pc[p] = "serving"
  /\ IF app[p].decoded_access_token = None \/ app[p].dbt_platform_context = None
     THEN /\ pc' = [pc EXCEPT ![p] = "failed"]
          /\ UNCHANGED <<result, mem, lock>>
     ELSE /\ pc' = [pc EXCEPT ![p] = "done"]
          /\ result' = [result EXCEPT ![p] =
                          Some(LoginResult(app[p].decoded_access_token,
                                           app[p].dbt_platform_context))]
          /\ mem' = [mem EXCEPT ![p] =
                       Some(app[p].decoded_access_token[1].access_token_response)]
          /\ lock' = 0
  /\ UNCHANGED <<now, issued, file, providerVars, attemptVars, storeVars, helperVars, variant, app, browser,
                 last_verified, saw_fresh>>

\* POST /shutdown ends server.run(); login returns its LoginResult or raises
\* "Undefined login state"; the `with` releases the lock either way.
Shutdown(p) ==
  /\ pc[p] = "serving"
  /\ IF app[p].decoded_access_token = None \/ app[p].dbt_platform_context = None
     THEN /\ pc' = [pc EXCEPT ![p] = "failed"]
          /\ UNCHANGED <<result, mem>>
     ELSE /\ pc' = [pc EXCEPT ![p] = "done"]
          /\ result' = [result EXCEPT ![p] =
                          Some(LoginResult(app[p].decoded_access_token,
                                           app[p].dbt_platform_context))]
          /\ mem' = [mem EXCEPT ![p] =
                       Some(app[p].decoded_access_token[1].access_token_response)]
  /\ lock' = 0
  /\ UNCHANGED <<now, issued, file, providerVars, attemptVars, storeVars, helperVars, variant, app, browser,
                 last_verified, saw_fresh>>

\* One _refresh_token call of the provider of a process that has its token
ProcRefresh(p) ==
  /\ pc[p] = "done"
  /\ \E a \in LoginAttempts(issued + 1, now) :
       LET r == RefreshResult(mem[p][1], file, a.endpoint_ok, a.d, a.jwks_ok,
                              a.write_ok, a.truncated)
           atr == AccessTokenResponse(a.d) IN
         /\ r.outcome = "ok" => issued < MaxIssued
         /\ mem' = [mem EXCEPT ![p] = Some(r.atr)]
         /\ file' = r.file
         /\ issued' = IF r.outcome = "ok" THEN issued + 1 ELSE issued
         /\ last_verified' =
              IF /\ a.endpoint_ok
                 /\ ~IsError(atr)
                 /\ ~IsError(fetch_jwks_and_verify_token(a.d.access_token, a.jwks_ok))
              THEN Some(a.d.access_token) ELSE None
  /\ UNCHANGED <<now, providerVars, attemptVars, storeVars, helperVars, variant, lock, pc, app, browser, result,
                 saw_fresh>>

NextLogin ==
  \/ \E p \in Procs : Call(p)
  \/ \E p \in Procs : Acquire(p)
  \/ \E p \in Procs : ExamineContext(p)
  \/ \E p \in Procs : \E req \in CallbackRequests(p) : Callback(p, req)
  \/ \E p \in Procs : SelectedProject(p)
  \/ \E p \in Procs : Shutdown(p)
  \/ \E p \in Procs : ProcRefresh(p)
  \/ Tick

LoginSpec == InitLogin /\ [][NextLogin]_vars

\* FileLock polls the lock file until it gets the lock
LoginLiveSpec ==
  /\ LoginSpec
  /\ \A p \in Procs : WF_vars(Acquire(p))

\* One login followed request by request: process Traced alone calls
\* get_dbt_platform_context
Traced == 1

NextAttempt ==
  \/ Call(Traced)
  \/ Acquire(Traced)
  \/ ExamineContext(Traced)
  \/ \E req \in CallbackRequests(Traced) : TracedCallback(Traced, req)
  \/ TracedSelectedProject(Traced)
  \/ Shutdown(Traced)

AttemptSpec == InitLogin /\ [][NextAttempt]_vars

\* The program takes the steps it can take by itself: FileLock gets a free
\* lock and the body of the `with` runs.  Requests to the callback server come
\* from the browser, when and if it sends them.
AttemptLiveSpec ==
  /\ AttemptSpec
  /\ WF_vars(Acquire(Traced))
  /\ WF_vars(ExamineContext(Traced))

\* The event loop runs a task that is ready and fires a timer that is due.
LiveSpec ==
  /\ Spec
  /\ WF_vars(WaitUntilRefreshNeeded)
  /\ WF_vars(SleepDone)
  /\ WF_vars(ErrorSleepDone)

----------------------------------------------------------------------------
(* Calls on the context store, one after the other *)

\* number of calls made on the store
MaxStoreCalls == 2

StoreToken(n) ==
  Some(DecodedAccessToken(
         AccessTokenResponse(TokenDict(n, "valid", 3600, 0, {}, {})), [sub |-> 7]))

\* Contexts handed to the store: empty, a token alone, a project selection,
\* an account alone, fields that are set and falsy, and every field set
StoreContexts ==
  {EmptyContext,
   DbtPlatformContext(StoreToken(1), None, None, None, None),
   DbtPlatformContext(None, Some("acme"), Some(DevEnv), Some(ProdEnv), None),
   DbtPlatformContext(None, None, None, None, Some(12)),
   DbtPlatformContext(None, Some(""), None, None, Some(0)),
   DbtPlatformContext(StoreToken(2), Some("12"),
                      Some([id |-> 3, name |-> "true", deployment_type |-> "development"]),
                      Some([id |-> 4, name |-> "", deployment_type |-> "production"]),
                      Some(7))}

\* The files the store may find
StoreFiles ==
  {File(k, EmptyContext) : k \in FileKinds}
  \cup {File("mapping", StoredContext(FirstToken(3600))),
        File("mapping", DbtPlatformContext(StoreToken(1), None, None, None, None))}

\* write_text fails on a file the process has no permission on
Writable(f) == f.kind # "unreadable"

StoreCall(op, arg, before, after, value, raised) ==
  [op |-> op, arg |-> arg, before |-> before, after |-> after, value |-> value,
   raised |-> raised]

InitStore ==
  /\ now = 0
  /\ issued = 0
  /\ file \in StoreFiles
  /\ variant = "config"
  /\ LoginIdle
  /\ ProviderIdle
  /\ AttemptIdle
  /\ StoreIdle
  /\ HelperIdle

\* DbtPlatformContextManager.read_context()
StoreRead ==
  /\ Len(store_log) < MaxStoreCalls
  /\ LET r == read_context_outcome(file) IN
       store_log' = Append(store_log,
                           StoreCall("read_context", EmptyContext, file, file,
                                     r.value, r.raised))
  /\ UNCHANGED <<now, issued, file, providerVars, loginVars, attemptVars, helperVars, upd, seen>>

\* DbtPlatformContextManager.write_context_to_file(context)
StoreWrite(context) ==
  /\ Len(store_log) < MaxStoreCalls
  /\ file' = write_context_to_file(file, context, Writable(file), FALSE)
  /\ store_log' = Append(store_log,
                         StoreCall("write_context_to_file", context, file, file',
                                   None,
                                   IF Writable(file) THEN None ELSE Some("OSError")))
  /\ UNCHANGED <<now, issued, providerVars, loginVars, attemptVars, helperVars, upd, seen>>

\* DbtPlatformContextManager.update_context(new_dbt_platform_context)
StoreUpdate(new) ==
  /\ Len(store_log) < MaxStoreCalls
  /\ file' = update_context(file, new, Writable(file), FALSE)
  /\ store_log' = Append(store_log,
                         StoreCall("update_context", new, file, file',
                                   IF Writable(file)
                                   THEN Some(update_context_next(file, new))
                                   ELSE None,
                                   IF Writable(file) THEN None ELSE Some("OSError")))
  /\ UNCHANGED <<now, issued, providerVars, loginVars, attemptVars, helperVars, upd, seen>>

\* _update_dbt_platform_context(new) of the callback server
StoreAppUpdate(new) ==
  /\ Len(store_log) < MaxStoreCalls
  /\ LET u == app_update_dbt_platform_context(NoApp, file, new, Writable(file), FALSE) IN
       /\ file' = u.file
       /\ store_log' = Append(store_log,
                              StoreCall("app_update", new, file, u.file,
                                        IF u.ok THEN u.app.dbt_platform_context ELSE None,
                                        IF u.ok THEN None ELSE Some("Exception")))
  /\ UNCHANGED <<now, issued, providerVars, loginVars, attemptVars, helperVars, upd, seen>>

NextStore ==
  \/ StoreRead
  \/ \E context \in StoreContexts : StoreWrite(context)
  \/ \E new \in StoreContexts : StoreUpdate(new)
  \/ \E new \in StoreContexts : StoreAppUpdate(new)

StoreSpec == InitStore /\ [][NextStore]_vars

----------------------------------------------------------------------------
(* Two updates of the context file that run at the same time, and a reader *)

\* What each update is called with: a refresh brings a new token, the
\* callback server the empty context of oauth_callback or a project selection
UpdaterContexts(u) ==
  IF u = "refresh"
  THEN {DbtPlatformContext(StoreToken(n), None, None, None, None) : n \in {1, 2}}
  ELSE {EmptyContext} \cup SelectionChoices

RaceFiles ==
  {MissingFile, File("mapping", EmptyContext),
   File("mapping", StoredContext(FirstToken(60)))}

InitRace ==
  /\ now = 0
  /\ issued = 0
  /\ file \in RaceFiles
  /\ variant = "config"
  /\ LoginIdle
  /\ ProviderIdle
  /\ AttemptIdle
  /\ StoreIdle
  /\ HelperIdle

\* The read and the merge of an update: read_context and override in
\* update_context, _read_dbt_platform_context and override in the server
UpdRead(u) ==
  /\ upd[u].pc = "idle"
  /\ \E new \in UpdaterContexts(u) :
       IF u = "refresh"
       THEN upd' = [upd EXCEPT ![u] =
                      UpdState("merged", Some(new),
                               Some(update_context_next(file, new)), None)]
       ELSE LET existing == app_read_dbt_platform_context(file) IN
            IF IsError(existing)
            THEN upd' = [upd EXCEPT ![u] = UpdState("failed", Some(new), None, None)]
            ELSE upd' = [upd EXCEPT ![u] =
                           UpdState("merged", Some(new),
                                    Some(override(existing, new)), None)]
  /\ UNCHANGED <<now, issued, file, providerVars, loginVars, attemptVars, helperVars,
                 store_log, seen>>

\* write_text opens the file for writing, which creates or truncates it
UpdOpen(u) ==
  /\ upd[u].pc = "merged"
  /\ upd' = [upd EXCEPT ![u] = UpdState("opened", @.new, @.next, Some(file))]
  /\ file' = EmptyFile
  /\ UNCHANGED <<now, issued, providerVars, loginVars, attemptVars, helperVars, store_log, seen>>

\* write_text writes the document and closes the file
UpdWrite(u) ==
  /\ upd[u].pc = "opened"
  /\ upd' = [upd EXCEPT ![u].pc = "done"]
  /\ file' = write_context_to_file(file, upd[u].next[1], TRUE, FALSE)
  /\ UNCHANGED <<now, issued, providerVars, loginVars, attemptVars, helperVars, store_log, seen>>

\* read_context of a third process, remembered with the writes under way
RaceRead ==
  /\ seen' = seen \cup
       {[value |-> read_context(file),
         writing |-> {u \in Updaters : upd[u].pc = "opened"},
         started |-> {u \in Updaters : upd[u].pc # "idle"}]}
  /\ UNCHANGED <<now, issued, file, providerVars, loginVars, attemptVars, helperVars,
                 store_log, upd>>

NextRace ==
  \/ \E u \in Updaters : UpdRead(u)
  \/ \E u \in Updaters : UpdOpen(u)
  \/ \E u \in Updaters : UpdWrite(u)
  \/ RaceRead

RaceSpec == InitRace /\ [][NextRace]_vars

----------------------------------------------------------------------------
(* The helpers of the login, called on their own *)

\* The rest of the program at rest while a helper is called
QuietProgram ==
  /\ now = 0
  /\ issued = 0
  /\ file = MissingFile
  /\ variant = "config"
  /\ LoginIdle
  /\ ProviderIdle
  /\ AttemptIdle
  /\ StoreIdle

quietVars == <<now, issued, file, providerVars, loginVars, attemptVars, storeVars>>

\* largest max_attempts _find_available_port is called with
MaxProbes == 4

\* A call _find_available_port(start_port=.., max_attempts=..) while other
\* programs hold the ports in busy, which may lie in or beyond the range
InitPort ==
  /\ QuietProgram
  /\ \E attempts \in 0..MaxProbes,
        busy \in SUBSET (OAUTH_REDIRECT_STARTING_PORT
                           ..(OAUTH_REDIRECT_STARTING_PORT + MaxProbes)) :
       port_call = [start_port |-> OAUTH_REDIRECT_STARTING_PORT,
                    max_attempts |-> attempts, busy |-> busy, called |-> FALSE,
                    port |-> None, raised |-> None]
  /\ page_call = None
  /\ token_call = None
  /\ cred = None

\* The call returns the port it found or raises RuntimeError
FindAvailablePort ==
  /\ ~port_call.called
  /\ LET r == find_available_port(port_call.start_port, port_call.max_attempts,
                                  port_call.busy) IN
       port_call' = [port_call EXCEPT !.called = TRUE, !.port = r,
                       !.raised = IF r = None THEN Some("RuntimeError") ELSE None]
  /\ UNCHANGED <<quietVars, page_call, token_call, cred>>

NextPort == FindAvailablePort

PortSpec == InitPort /\ [][NextPort]_vars

\* largest number of items a listing of the platform holds
MaxItems == 5

\* page sizes the listings are fetched with
PageSizes == 1..3

\* The listing endpoint: the items of a listing of n items from offset on, at
\* most limit of them.  Item i is the i-th project or environment.
ServerPage(n, offset, limit) ==
  [i \in 1..(IF n - offset < limit THEN Max(n - offset, 0) ELSE limit) |-> offset + i]

\* the loop left only by a page that holds nothing
LastPageWhenEmpty(page, page_size) == Len(page) = 0

\* `if len(page) < page_size: break`
LastPage(page, page_size) == Len(page) < page_size

\* _get_all_projects_for_account or _get_all_environments_for_project is
\* called for a listing of n items
InitPage ==
  /\ QuietProgram
  /\ \E listing \in {"projects", "environments"}, n \in 0..MaxItems,
        page_size \in PageSizes :
       page_call = [listing |-> listing, n |-> n, page_size |-> page_size,
                    offset |-> 0, items |-> <<>>, requests |-> <<>>, pc |-> "loop"]
  /\ port_call = None
  /\ token_call = None
  /\ cred = None

\* One turn of `while True`: requests.get with offset and limit,
\* raise_for_status, extend, then break or advance the offset
FetchPage ==
  /\ page_call.pc = "loop"
  /\ \E status_ok \in BOOLEAN :
       LET page == ServerPage(page_call.n, page_call.offset, page_call.page_size)
           sent == Append(page_call.requests,
                          [offset |-> page_call.offset, limit |-> page_call.page_size])
       IN
       page_call' =
         IF ~status_ok
         THEN [page_call EXCEPT !.requests = sent, !.pc = "raised"]
         ELSE IF LastPage(page, page_call.page_size)
         THEN [page_call EXCEPT !.requests = sent, !.items = @ \o page,
                                !.pc = "returned"]
         ELSE [page_call EXCEPT !.requests = sent, !.items = @ \o page,
                                !.offset = @ + page_call.page_size]
  /\ UNCHANGED <<quietVars, port_call, token_call, cred>>

NextPage == FetchPage

PageSpec == InitPage /\ [][NextPage]_vars

\* The token responses the exchange of a login and a refresh may be answered
\* with: a field missing, the four fields of the unit test missing, and every
\* form of expires_in and expires_at
TokenResponses ==
  { [TokenDict(1, "valid", e, 0, absent, {f \in IntFields : form[f] # "int"})
       EXCEPT !.form = form] :
      e \in ExpiresInChoices,
      absent \in {{}} \cup {{f} : f \in RequiredFields}
                 \cup {{"expires_in", "scope", "token_type", "expires_at"}},
      form \in [IntFields -> IntForms] }

TokenCall(d, via, rejected, held) ==
  [d |-> d, via |-> via, rejected |-> rejected, held |-> held]

InitToken ==
  /\ now = 0
  /\ issued = 0
  /\ file \in {MissingFile, File("mapping", StoredContext(FirstToken(3600)))}
  /\ variant = "config"
  /\ LoginIdle
  /\ ProviderIdle
  /\ AttemptIdle
  /\ StoreIdle
  /\ token_call = TokenCall(FirstToken(3600), "none", FALSE, Some(FirstToken(3600)))
  /\ port_call = None
  /\ page_call = None
  /\ cred = None

\* _refresh_token of a provider that holds the first token, answered with d
TokenRefresh(d) ==
  /\ token_call.via = "none"
  /\ LET r == RefreshResult(FirstToken(3600), file, TRUE, d, TRUE, TRUE, FALSE) IN
       /\ file' = r.file
       /\ token_call' = TokenCall(d, "refresh", r.outcome = "validation_error",
                                  Some(r.atr))
  /\ UNCHANGED <<now, issued, providerVars, loginVars, attemptVars, storeVars,
                 port_call, page_call, cred>>

\* oauth_callback of a fresh server whose exchange is answered with d
TokenCallback(d) ==
  /\ token_call.via = "none"
  /\ LET r == CallbackExchange(AppState(None, None, {}), file,
                               RefreshAttempt(TRUE, d, TRUE, TRUE, FALSE)) IN
       /\ file' = r.file
       /\ token_call' =
            TokenCall(d, "login", r.verified = None,
                      IF r.app.decoded_access_token = None THEN None
                      ELSE Some(r.app.decoded_access_token[1].access_token_response))
  /\ UNCHANGED <<now, issued, providerVars, loginVars, attemptVars, storeVars,
                 port_call, page_call, cred>>

NextToken ==
  \/ \E d \in TokenResponses : TokenRefresh(d)
  \/ \E d \in TokenResponses : TokenCallback(d)

TokenSpec == InitToken /\ [][NextToken]_vars

----------------------------------------------------------------------------
(* CredentialsProvider.get_credentials called by several tasks of one event
   loop.  A coroutine runs until it awaits something that suspends: the only
   such point of get_credentials is the login inside
   get_dbt_platform_context, which is awaited with the FileLock held. *)

\* how many tasks call get_credentials of the one CredentialsProvider
MaxCredCalls == 3
CredCalls == 1..MaxCredCalls

\* The files a call may find
CredFiles == LoginFiles \cup {File("mapping", PartialContext(FirstToken(3600)))}

InitCred ==
  /\ now = 0
  /\ issued = 0
  /\ file \in CredFiles
  /\ variant = "settings"
  /\ LoginIdle
  /\ ProviderIdle
  /\ AttemptIdle
  /\ StoreIdle
  /\ port_call = None
  /\ page_call = None
  /\ token_call = None
  /\ \E oauth \in BOOLEAN :
       cred = [oauth |-> oauth,                       \* enable_oauth and dbt_platform_errors
               pc |-> [c \in CredCalls |-> "idle"],
               token_provider |-> 0,                  \* self.token_provider, 0 for None
               made |-> 0,                            \* TokenProvider instances constructed
               lock |-> 0,                            \* the call whose FileLock holds mcp.lock
               logins |-> 0,                          \* logins begun
               ret |-> [c \in CredCalls |-> 0]]       \* the instance a call returned

\* FileLock.acquire polls `while True: ... time.sleep(poll_interval)` without
\* a timeout: a call that finds mcp.lock held by a coroutine of its own
\* thread keeps the thread, and no coroutine of the loop runs again.
ThreadBlocked == \E c \in CredCalls : cred.pc[c] = "spinning"

\* self.token_provider = <a new provider>; return self.settings, self.token_provider
ReturnNewProvider(cr, c) ==
  [cr EXCEPT !.made = @ + 1, !.token_provider = cr.made + 1,
             !.ret[c] = cr.made + 1, !.pc[c] = "returned"]

\* get_credentials from its first line to its first suspension or its end
GetCredentials(c) ==
  /\ cred.pc[c] = "idle"
  /\ ~ThreadBlocked
  /\ IF cred.token_provider # 0
     THEN cred' = [cred EXCEPT !.ret[c] = cred.token_provider, !.pc[c] = "returned"]
     ELSE IF ~cred.oauth
     THEN cred' = ReturnNewProvider(cred, c)
     ELSE IF cred.lock # 0
     THEN cred' = [cred EXCEPT !.pc[c] = "spinning"]
     ELSE IF UsableSettings(read_context(file), now)
     THEN cred' = ReturnNewProvider(cred, c)
     ELSE cred' = [cred EXCEPT !.lock = c, !.logins = @ + 1, !.pc[c] = "login"]
  /\ UNCHANGED <<quietVars, port_call, page_call, token_call>>

\* The awaited login comes back: with the context it has written, or with
\* an exception.  `with FileLock` releases the lock either way.
LoginReturns(c) ==
  /\ cred.pc[c] = "login"
  /\ ~ThreadBlocked
  /\ \/ /\ file' = File("mapping", StoredContext(FirstToken(3600)))
        /\ cred' = ReturnNewProvider([cred EXCEPT !.lock = 0], c)
     \/ /\ file' = file
        /\ cred' = [cred EXCEPT !.lock = 0, !.pc[c] = "raised"]
  /\ UNCHANGED <<now, issued, providerVars, loginVars, attemptVars, storeVars,
                 port_call, page_call, token_call>>

NextCred ==
  \/ \E c \in CredCalls : GetCredentials(c)
  \/ \E c \in CredCalls : LoginReturns(c)

CredSpec == InitCred /\ [][NextCred]_vars

\* The event loop runs every task that is ready; the login ends
CredLiveSpec ==
  /\ CredSpec
  /\ \A c \in CredCalls : WF_vars(GetCredentials(c)) /\ WF_vars(LoginReturns(c))

----------------------------------------------------------------------------
(* Properties of the token providers and of the refresh worker *)

\* The access token a managed provider should hold: the one it was
\* constructed with until a refresh succeeds, then the one of the last
\* refresh that succeeded.
ExpectedToken == IF last_ok = None THEN construct_token ELSE last_ok[1]

\* C1: on a managed provider no worker exists before the first get_token()
\* call, and after any number N >= 1 of calls exactly one worker task has been
\* created and refresh_started is set.
C1_ExactlyOneWorker ==
  kind = "oauth" =>
    /\ calls = 0 => (tasks = 0 /\ ~refresh_started)
    /\ calls >= 1 => (tasks = 1 /\ refresh_started)

C1_Witness == kind = "oauth" /\ calls >= 2 /\ tasks = 1

\* C2: every get_token() call on a managed provider returns the access token
\* held in memory, which is the construction token until the first successful
\* refresh and the token of the last successful refresh afterwards, and the
\* call touches neither the network nor the context file.
C2_GetTokenReturnsMemoryToken ==
  [][(kind = "oauth" /\ calls' = calls + 1) =>
       /\ returned' = Some(ExpectedToken)
       /\ returned' = Some(access_token_response.access_token)
       /\ get_token_io' = {}
       /\ file' = file
       /\ issued' = issued]_vars

C2_Witness ==
  /\ kind = "oauth"
  /\ last_ok # None
  /\ returned = last_ok
  /\ refresh_outcome = "ok"

\* C3 as stated: a static provider without a token (None) fails every
\* get_token(), and one with any token t returns t.
C3_Original ==
  (kind = "static" /\ calls >= 1) =>
    /\ token = None => static_result = "ValueError"
    /\ token # None => static_result = token[1]

\* C3 (amended): a static provider whose token is None or the empty string
\* fails every get_token() with ValueError; one with a non-empty token t
\* returns t on every call; no call starts a task or changes the provider's
\* token, the worker, a managed provider's fields or the context file.
C3_StaticProvider ==
  /\ [](kind = "static" =>
          /\ tasks = 0 /\ worker_pc = "none" /\ ~refresh_started
          /\ calls >= 1 =>
               /\ (token = None \/ token = Some("")) => static_result = "ValueError"
               /\ (token # None /\ token # Some("")) => static_result = token[1])
  /\ [][kind = "static" =>
          /\ token' = token
          /\ UNCHANGED <<oauthVars, workerVars, file>>]_vars

C3_Witness ==
  kind = "static" /\ calls >= 2 /\ token = Some("tkn-1") /\ static_result = "tkn-1"

\* C4: the worker never ends; a refresh attempt that raises puts it into one
\* wait of error_retry_delay with the token (and its expires_at) unchanged,
\* after which a new iteration starts, computes its wait from that expires_at
\* and attempts the refresh again.
C4_WorkerKeepsRetrying ==
  /\ [](worker_pc # "dead")
  /\ [][/\ failures' = failures + 1 =>
             /\ worker_pc' = "error_sleep"
             /\ wake_at' = now + error_retry_delay
             /\ access_token_response' = access_token_response
        /\ (worker_pc = "error_sleep" /\ worker_pc' # "error_sleep") =>
             /\ worker_pc' = "loop_top"
             /\ now' >= wake_at
             /\ access_token_response' = access_token_response
        /\ (worker_pc = "loop_top" /\ worker_pc' # "loop_top") =>
             /\ time_until_refresh' =
                  Max(access_token_response.expires_at - buffer_seconds - now, 0)
             /\ access_token_response' = access_token_response]_vars
  /\ (worker_pc = "error_sleep") ~> (worker_pc = "refresh")

C4_Witness ==
  /\ worker_pc = "refresh"
  /\ failures >= 1
  /\ refresh_outcome \in {"endpoint_error", "validation_error",
                          "verification_error", "update_error"}

\* C5: a refresh attempt that fails, at whichever step, leaves the in-memory
\* token as it was, and a get_token() call after a failure returns the last
\* good access token.
C5_FailedRefreshKeepsToken ==
  [][/\ failures' = failures + 1 =>
          /\ access_token_response' = access_token_response
          /\ access_token_response.access_token = ExpectedToken
     /\ (failures >= 1 /\ calls' = calls + 1) =>
          returned' = Some(ExpectedToken)]_vars

\* The first refresh succeeded with a 60 second token, so the worker went on
\* into the next attempt without suspending; that attempt failed, and the
\* get_token() call that returned the refreshed token came after it.
C5_Witness ==
  /\ kind = "oauth"
  /\ refresh_outcome = "update_error"
  /\ last_ok # None
  /\ access_token_response.expires_in = 60
  /\ returned = last_ok

\* C6: the wait of an iteration is max(expires_at - buffer - now, 0): 3300 for
\* a token expiring 3600 seconds from now, 0 when the token expires within
\* the buffer, never negative; the worker sleeps exactly when it is positive,
\* and the refresh attempt does not start before the wait has passed.
C6_WaitUntilRefresh ==
  worker_pc \in {"sleeping", "refresh"} =>
    LET expires_at == access_token_response.expires_at IN
      /\ time_until_refresh >= 0
      /\ expires_at <= current_time + buffer_seconds => time_until_refresh = 0
      /\ expires_at > current_time + buffer_seconds =>
           time_until_refresh = expires_at - buffer_seconds - current_time
      /\ expires_at = current_time + 3600 => time_until_refresh = 3300
      /\ worker_pc = "sleeping" <=> (time_until_refresh > 0 /\ wake_at # 0)
      /\ worker_pc = "sleeping" => wake_at = current_time + time_until_refresh
      /\ worker_pc = "refresh" => now >= current_time + time_until_refresh

C6_Witness ==
  /\ worker_pc = "refresh"
  /\ time_until_refresh = 3300
  /\ access_token_response.expires_at = current_time + 3600

----------------------------------------------------------------------------
(* Properties of get_dbt_platform_context and of login *)

AppToken(p) == app[p].decoded_access_token
FileToken(f) == f.doc.decoded_access_token
AccessTokenOf(decoded) == decoded[1].access_token_response.access_token

\* C7: a step that replaces the token response a provider holds in memory,
\* puts a token into app.state of the callback server, or changes the token
\* in the context file, has verified exactly that token in the same refresh
\* or callback; an exchange or refresh whose verification fails changes
\* neither a token in memory nor the file.
C7_StoredOnlyAfterVerification ==
  [][ /\ \A p \in Procs :
           (mem[p] # None /\ mem'[p] # mem[p])
             => last_verified' = Some(mem'[p][1].access_token)
      /\ \A p \in Procs :
           (AppToken(p)' # None /\ AppToken(p)' # AppToken(p))
             => last_verified' = Some(AccessTokenOf(AppToken(p)'))
      /\ FileToken(file)' # FileToken(file)
           => /\ FileToken(file)' # None
              /\ last_verified' = Some(AccessTokenOf(FileToken(file)'))
      /\ (last_verified' = None /\ last_verified # None)
           => /\ UNCHANGED <<mem, file>>
              /\ \A p \in Procs : AppToken(p)' = AppToken(p) ]_vars

\* One process has refreshed its token, and the callback server of another
\* holds the token its callback has just verified
C7_Witness ==
  \E p, q \in Procs :
    /\ pc[q] = "done"
    /\ mem[q][1] # result[q][1].decoded_access_token[1].access_token_response
    /\ FileToken(file) # None
    /\ FileToken(file)[1].access_token_response = mem[q][1]
    /\ pc[p] = "serving"
    /\ AppToken(p) # None
    /\ last_verified = Some(AccessTokenOf(AppToken(p)))

\* C8: a process that enters the critical section after another process has
\* finished a browser login whose token is still fresh returns the stored
\* context and opens no browser of its own.
C8_SecondReusesFirstLogin ==
  \A p \in Procs : saw_fresh[p] => browser[p] = 0

\* C9: at most one process is between acquiring the lock and leaving the
\* critical section of get_dbt_platform_context, that process is the holder
\* of the lock, and the lock is taken only when it is free.
C9_MutualExclusion ==
  /\ Cardinality({p \in Procs : InCS(p)}) <= 1
  /\ \A p \in Procs : InCS(p) => lock = p
  /\ lock # 0 => InCS(lock)

\* One process serves its login page while another waits for the lock
C9_Witness ==
  \E p, q \in Procs :
    /\ p # q
    /\ pc[p] = "serving"
    /\ lock = p
    /\ pc[q] = "waiting"

\* C10: a process that leaves the critical section, by returning a context
\* or by raising, leaves the lock free; and once the lock is free while some
\* process waits for it, the lock is acquired again.
C10_LockReleased ==
  /\ [][\A p \in Procs : (InCS(p) /\ ~InCS(p)') => lock' = 0]_vars
  /\ (lock = 0 /\ \E p \in Procs : pc[p] = "waiting") ~> (lock # 0)

\* A login has raised after its browser was opened, and another process has
\* since acquired the lock it left
C10_Witness ==
  \E p, q \in Procs :
    /\ p # q
    /\ pc[p] = "failed"
    /\ browser[p] > 0
    /\ InCS(q)
    /\ lock = q

\* C11: a process that examines a context file holding a token with more
\* than LOGIN_BUFFER seconds left returns the stored context without probing
\* a port or opening a browser, whatever the other fields of the context are.
C11_FreshTokenSkipsLogin ==
  [][\A p \in Procs :
       ( /\ pc[p] = "locked"
         /\ pc'[p] # "locked"
         /\ read_context(file) # None
         /\ FileToken(file) # None
         /\ ExpiresAtOf(file.doc) > now + LOGIN_BUFFER )
       => /\ pc'[p] = "done"
          /\ browser'[p] = browser[p]
          /\ result'[p] = Some(LoginResult(FileToken(file), Some(file.doc))) ]_vars

----------------------------------------------------------------------------
(* Properties of the context store *)

ContextFields ==
  {"decoded_access_token", "host_prefix", "dev_environment", "prod_environment",
   "account_id"}

StoreCallIndexes == 1..Len(store_log)

\* C14: when update_context(A) is followed by update_context(B), every field
\* that A sets and B leaves unset has A's value in the file and in what the
\* second update returns.
C14_MergeKeepsEarlierFields ==
  \A i \in StoreCallIndexes :
    i < Len(store_log) =>
      LET a == store_log[i]
          b == store_log[i + 1] IN
      ( /\ a.op = "update_context" /\ a.raised = None
        /\ b.op = "update_context" /\ b.raised = None )
      => \A X \in ContextFields :
           (a.arg[X] # None /\ b.arg[X] = None)
           => /\ b.after.kind = "mapping"
              /\ b.after.doc[X] = a.arg[X]
              /\ b.value[1][X] = a.arg[X]

\* C15: the merge of a new context into the stored one has, for each field,
\* the new context's value whenever the new context has a value for it, and
\* the stored value otherwise.
C15_MergeTakesNewValue ==
  \A i \in StoreCallIndexes :
    LET c == store_log[i] IN
    (c.op = "update_context" /\ c.raised = None /\ c.before.kind = "mapping")
    => \A X \in ContextFields :
         c.value[1][X] = IF c.arg[X] # None THEN c.arg[X] ELSE c.before.doc[X]

\* C16: read_context right after write_context_to_file(c) returns a context
\* equal to c.
C16_WriteThenRead ==
  \A i \in StoreCallIndexes :
    i < Len(store_log) =>
      LET a == store_log[i]
          b == store_log[i + 1] IN
      (a.op = "write_context_to_file" /\ a.raised = None /\ b.op = "read_context")
      => /\ b.raised = None
         /\ b.value = Some(a.arg)

\* A context whose strings look like a number, a boolean and nothing at all
\* has been written and read back
C16_Witness ==
  /\ Len(store_log) = 2
  /\ store_log[1].op = "write_context_to_file"
  /\ store_log[1].arg.host_prefix = Some("12")
  /\ store_log[1].arg.dev_environment # None
  /\ store_log[1].arg.dev_environment[1].name = "true"
  /\ store_log[2].op = "read_context"
  /\ store_log[2].value # None

\* C17: read_context raises nothing; on a file that is missing, unreadable,
\* empty, blank, not YAML, not a mapping or not a valid context it returns
\* None; and it leaves the file as it was.
C17_ReadContextNeverRaises ==
  \A i \in StoreCallIndexes :
    LET c == store_log[i] IN
    c.op = "read_context"
    => /\ c.raised = None
       /\ c.before.kind # "mapping" => c.value = None
       /\ c.after = c.before
       /\ i = Len(store_log) => file = c.before

\* read_context has returned None for a mapping that is not a valid context
C17_Witness ==
  \E i \in StoreCallIndexes :
    /\ store_log[i].op = "read_context"
    /\ store_log[i].before.kind = "invalid"
    /\ store_log[i].value = None
    /\ store_log[i].raised = None

\* C18: for every prior state of the file, the callback server's
\* _update_dbt_platform_context leaves the file update_context would leave
\* for the same new context, and raises only where update_context raises.
C18_CallbackPersistsLikeUpdate ==
  \A i \in StoreCallIndexes :
    LET c == store_log[i] IN
    c.op = "app_update"
    => /\ c.after = update_context(c.before, c.arg, Writable(c.before), FALSE)
       /\ Writable(c.before) => c.raised = None

\* C12: when a refresh and an update of the callback server have both
\* written the file, the file holds the token of the refresh and every field
\* the server's update set, however their reads and writes interleaved.
C12_NoFieldErased ==
  (upd["refresh"].pc = "done" /\ upd["server"].pc = "done")
  => /\ file.kind = "mapping"
     /\ FileToken(file) = upd["refresh"].new[1].decoded_access_token
     /\ \A X \in ContextFields :
          upd["server"].new[1][X] # None => file.doc[X] = upd["server"].new[1][X]

\* C13: a read_context made while the refresh alone is writing over a file
\* that held a valid context returns that context or the new one.
C13_ReaderSeesOldOrNew ==
  \A r \in seen :
    ( /\ r.writing = {"refresh"}
      /\ r.started = {"refresh"}
      /\ upd["refresh"].replaced # None
      /\ upd["refresh"].replaced[1].kind = "mapping" )
    => \/ r.value = Some(upd["refresh"].replaced[1].doc)
       \/ r.value = upd["refresh"].next

----------------------------------------------------------------------------
(* Properties of one login from the first request to the last *)

\* C19: a login that found no context file and whose single callback was
\* exchanged for a token that passed verification ends in success, the file
\* holds that token, and the provider built from the result holds its access
\* token.
C19_FirstLoginPersistsToken ==
  ( /\ file0.kind = "missing"
    /\ pc[Traced] \in {"done", "failed"}
    /\ Len(handled) = 1
    /\ handled[1].verified # None )
  => /\ pc[Traced] = "done"
     /\ FileToken(file) = handled[1].verified
     /\ mem[Traced] # None
     /\ mem[Traced][1].access_token = AccessTokenOf(handled[1].verified)

\* C20: a callback with an error parameter pops no verifier for a token
\* exchange, stores no token and leaves the file as it was; a login whose
\* callbacks all carried the error parameter raises and returns no
\* LoginResult.
C20_ErrorCallbackFailsLogin ==
  /\ \A i \in 1..Len(handled) :
       handled[i].req.error
       => /\ ~handled[i].exchanged
          /\ handled[i].verified = None
          /\ handled[i].after = handled[i].before
  /\ ( /\ pc[Traced] \in {"done", "failed"}
       /\ Len(handled) >= 1
       /\ \A i \in 1..Len(handled) : handled[i].req.error )
     => /\ pc[Traced] = "failed"
        /\ result[Traced] = None
        /\ file = file0

\* The login has ended after a single callback, which carried the error
\* parameter together with a code and the issued state
C20_Witness ==
  /\ Len(handled) = 1
  /\ handled[1].req = CallbackRequest(TRUE, TRUE, Some(Traced))
  /\ pc[Traced] = "failed"
  /\ browser[Traced] = 1

\* A handled callback that got the error redirect
FailedCallback(h) == h.verified = None /\ (h.req.error \/ h.req.code)

\* C21: a login handles one redirect outcome: after a callback that failed, no
\* later callback of the same login verifies a token or writes the file, and
\* after a callback that verified a token no later callback replaces it.
C21_OneRedirectOutcome ==
  \A i, j \in 1..Len(handled) :
    i < j =>
      /\ FailedCallback(handled[i])
           => /\ handled[j].verified = None
              /\ handled[j].after = handled[j].before
      /\ handled[i].verified # None => handled[j].verified = None

\* C22: once a callback has been handled, login returns or raises without a
\* further request to the server.
C22_LoginCompletesAfterCallback ==
  (Len(handled) >= 1) ~> (pc[Traced] \in {"done", "failed"})

\* C23: when login raises, the context file is the file the login found: no
\* token, user or environment obtained during the login has been written.
C23_FailedLoginLeavesFile ==
  pc[Traced] = "failed" => file = file0

\* login has raised although a callback of it verified a token
C23_Witness ==
  /\ pc[Traced] = "failed"
  /\ Len(handled) >= 1
  /\ handled[1].verified # None
  /\ app[Traced].decoded_access_token # None

\* C24: a callback is exchanged for a token only if it carries a code and the
\* state this login issued and no earlier callback was exchanged for that
\* state; any other callback verifies no token and leaves the file alone; so
\* at most one callback of the login is exchanged.
C24_StateUsedOnce ==
  /\ \A i \in 1..Len(handled) :
       /\ handled[i].exchanged
            => /\ ~handled[i].req.error
               /\ handled[i].req.code
               /\ handled[i].req.state = Some(Traced)
               /\ \A j \in 1..(i - 1) : ~handled[j].exchanged
       /\ ~handled[i].exchanged
            => /\ handled[i].verified = None
               /\ handled[i].after = handled[i].before
  /\ Cardinality({i \in 1..Len(handled) : handled[i].verified # None}) <= 1

\* The issued state came back twice: the first callback was exchanged, the
\* second was not
C24_Witness ==
  /\ Len(handled) = 2
  /\ handled[1].exchanged
  /\ handled[2].req = CallbackRequest(FALSE, TRUE, Some(Traced))
  /\ ~handled[2].exchanged

----------------------------------------------------------------------------
(* Properties of a refresh and of the helpers of the login *)

\* The context the file holds, with every field unset when there is none
StoredFields(f) ==
  LET c == read_context(f) IN IF c = None THEN EmptyContext ELSE c[1]

\* C25: a refresh that succeeds leaves host_prefix, dev_environment,
\* prod_environment and account_id of the stored context as they were, and
\* the stored token is the refreshed token the provider now holds.
C25_RefreshChangesOnlyToken ==
  [][ (refresh_outcome' = "ok" /\ issued' = issued + 1)
      => /\ read_context(file') # None
         /\ \A X \in ContextFields \ {"decoded_access_token"} :
              StoredFields(file')[X] = StoredFields(file)[X]
         /\ StoredFields(file').decoded_access_token # None
         /\ StoredFields(file').decoded_access_token[1].access_token_response
              = access_token_response'
         /\ access_token_response'.access_token.id = issued' ]_vars

\* A refresh has succeeded on a file whose selection was incomplete: the file
\* holds the second token and still the empty host prefix and account 0
C25_Witness ==
  /\ refresh_outcome = "ok"
  /\ issued = 1
  /\ file.kind = "mapping"
  /\ file.doc.host_prefix = Some("")
  /\ file.doc.account_id = Some(0)
  /\ file.doc.dev_environment = None
  /\ FileToken(file) # None
  /\ AccessTokenOf(FileToken(file)).id = 1

\* The ports of the range of a call that can be bound
FreePorts(c) ==
  (c.start_port..(c.start_port + c.max_attempts - 1)) \ c.busy

\* C26: _find_available_port returns the lowest port of
\* [start_port, start_port + max_attempts) that can be bound, and raises
\* RuntimeError exactly when none of them can.
C26_LowestFreePort ==
  port_call.called =>
    IF FreePorts(port_call) = {}
    THEN port_call.raised = Some("RuntimeError") /\ port_call.port = None
    ELSE /\ port_call.raised = None
         /\ port_call.port # None
         /\ port_call.port[1] \in FreePorts(port_call)
         /\ \A q \in FreePorts(port_call) : port_call.port[1] <= q

\* The first two ports of the range were taken and the third was returned
C26_Witness ==
  /\ port_call.called
  /\ {port_call.start_port, port_call.start_port + 1} \subseteq port_call.busy
  /\ port_call.port = Some(port_call.start_port + 2)

\* C27: the listing is requested at offsets 0, page_size, 2 * page_size, ...
\* with limit page_size; the function returns after the first page shorter
\* than page_size, having made n \div page_size + 1 requests, and returns the
\* n items of the listing in order, each once.
C27_Pagination ==
  /\ \A k \in 1..Len(page_call.requests) :
       page_call.requests[k] =
         [offset |-> (k - 1) * page_call.page_size, limit |-> page_call.page_size]
  /\ Len(page_call.requests) <= page_call.n \div page_call.page_size + 1
  /\ page_call.pc = "returned"
       => /\ Len(page_call.requests) = page_call.n \div page_call.page_size + 1
          /\ page_call.items = [i \in 1..page_call.n |-> i]

\* A listing of four items was fetched two at a time: two full pages and an
\* empty one
C27_Witness ==
  /\ page_call.pc = "returned"
  /\ page_call.n = 4
  /\ page_call.page_size = 2
  /\ Len(page_call.requests) = 3
  /\ page_call.items = <<1, 2, 3, 4>>

\* The token the context file holds, if it holds one
StoredResponse(f) ==
  IF read_context(f) = None \/ read_context(f)[1].decoded_access_token = None
  THEN None
  ELSE Some(read_context(f)[1].decoded_access_token[1].access_token_response)

\* A token that carries the integers expires_in and expires_at of response d
CarriesExpiry(atr, d) ==
  /\ ~IsError(atr)
  /\ atr.expires_at = d.expires_at
  /\ atr.expires_in = d.expires_in

\* C28 as stated: a response that lacks expires_in, scope, token_type or
\* expires_at, or whose expires_in or expires_at is not an integer, is
\* rejected.
C28_Original ==
  token_call.via # "none" =>
    ( ( \/ token_call.d.absent \cap {"expires_in", "scope", "token_type", "expires_at"} # {}
        \/ \E f \in IntFields : token_call.d.form[f] # "int" )
      => token_call.rejected )

\* C28: a response is rejected exactly when a field is missing or expires_in
\* or expires_at does not validate as int (a string of digits and a float
\* without fraction do, and are stored as that integer); a rejected response
\* changes neither the token held nor the file; the token held after an
\* accepted response, and the token then in the file, carry the integer
\* expires_at of that response.
C28_TokenCarriesExpiresAt ==
  /\ token_call.via # "none" =>
       /\ token_call.rejected
            <=> ( \/ token_call.d.absent # {}
                  \/ \E f \in IntFields :
                       token_call.d.form[f] \in {"text", "fractional_float", "null"} )
       /\ ~token_call.rejected
            => /\ token_call.held # None
               /\ CarriesExpiry(token_call.held[1], token_call.d)
               /\ token_call.via = "refresh"
                    => /\ StoredResponse(file) # None
                       /\ CarriesExpiry(StoredResponse(file)[1], token_call.d)
       /\ token_call.rejected
            => token_call.held = IF token_call.via = "refresh"
                                 THEN Some(FirstToken(3600)) ELSE None
  /\ StoredResponse(file) # None
       => StoredResponse(file)[1].expires_at
            = StoredResponse(file)[1].expires_in

\* A refresh was answered with expires_in as a string of digits: the response
\* was accepted and the provider and the file hold the integer
C28_Witness ==
  /\ token_call.via = "refresh"
  /\ token_call.d.absent = {}
  /\ token_call.d.form["expires_in"] = "numeric_str"
  /\ ~token_call.rejected
  /\ token_call.held[1].expires_at = 3600
  /\ StoredResponse(file) # None
  /\ StoredResponse(file)[1].expires_at = 3600

----------------------------------------------------------------------------
(* Properties of the scheduling of the worker and of get_credentials *)

\* C29: every iteration of the refresh worker suspends at least once: an
\* iteration that comes back to the head of the loop after a successful
\* refresh has slept in its timed wait (a failed one sleeps in the error
\* delay), so other tasks and get_token() callers can run between two
\* refresh attempts.
C29_IterationSuspends ==
  [][ (worker_pc = "refresh" /\ worker_pc' = "loop_top")
        => time_until_refresh > 0 ]_vars

====
